---- MODULE Spec2Model ----
(***************************************************************************)
(* Replacement selection (run generation for an external merge sort):      *)
(* src/src/record.rs, src/src/io.rs, src/src/replacement_selection.rs.     *)
(*                                                                         *)
(* Byte strings are sequences of naturals 0..255.  A file is the sequence  *)
(* of its bytes; a file handle adds the write offset.                      *)
(***************************************************************************)
EXTENDS Integers, Sequences, FiniteSets, Bags, TLC

VARIABLES
    input,      \* the bytes of the input stream handed to run()
    heap_cap,   \* ReplacementSelection.heap_cap
    st,         \* run(): its locals, its position, the run files, its result
    alt_cap,    \* a second capacity for the same input (SpecMono)
    alt,        \* the result of run() under alt_cap (SpecMono)
    dw,         \* a DirectWriter driven directly (SpecWriter)
    rd,         \* read_gensort_record over a chunking reader (SpecRead)
    ord         \* two Items and their comparisons (SpecOrder)

vars == <<input, heap_cap, st, alt_cap, alt, dw, rd, ord>>

(***************************************************************************)
(* Bounds of the model.                                                    *)
(***************************************************************************)
MaxLen == 4        \* records in an exhaustively enumerated input
MaxCap == 3        \* largest heap capacity tried
MaxKey == 2        \* keys are numbered 0..MaxKey
SortedLen == 6     \* records in the longest sorted input
MonoLen == 5       \* records in the longer inputs of SpecMono
LongLen == 39      \* records in the long input (38 * 108 > ALIGNMENT)
MaxCalls == 3      \* write_all calls on a directly driven DirectWriter
MaxStream == 110   \* bytes in a stream read through a chunking reader
MaxFlushes == 2    \* flush calls on a directly driven DirectWriter
MaxSkip == 4       \* operations of a kind that succeed before one fails
FaultLen == 3      \* records in the longest short input run under a fault
OrdGen == 1        \* compared items have generations 0..OrdGen
OrdSeq == 1        \* compared items have sequence numbers 0..OrdSeq

(***************************************************************************)
(* Program constants.                                                      *)
(***************************************************************************)
ALIGNMENT == 4096
KEY_SIZE == 10
PAYLOAD_SIZE == 90

None == [some |-> FALSE]
Some(v) == [some |-> TRUE, val |-> v]
Ok(v) == [ok |-> TRUE, val |-> v]
Err(kind) == [ok |-> FALSE, kind |-> kind]
Idle == "idle"

Zeros(n) == [i \in 1..n |-> 0]
Fill(n, b) == [i \in 1..n |-> b]

(***************************************************************************)
(* The environment of the I/O operations.  An environment io says which    *)
(* operation fails, if any:                                                *)
(*   kind     "none", or the kind of operation that fails: "read" (one     *)
(*            Read::read on the input), "open" (OpenOptions::open of a run *)
(*            file), "write" (File::write_all of the aligned buffer),      *)
(*            "truncate" (ftruncate / File::set_len)                       *)
(*   skip     how many operations of that kind succeed first               *)
(*   lasting  every later operation of that kind fails too                 *)
(*   torn     how many bytes of the buffer a failing write left in the     *)
(*            file before it failed                                        *)
(*   linux    the build: target_os = "linux" or not                        *)
(*   failed   the kinds of operation that have failed so far               *)
(***************************************************************************)
NoFault ==
    [kind |-> "none", skip |-> 0, lasting |-> FALSE, torn |-> 0,
     linux |-> TRUE, failed |-> {}]

\* the next operation of this kind returns Err
Fails(io, kind) == io.kind = kind /\ io.skip = 0

\* the environment after an operation of this kind that returned Ok
Passed(io, kind) ==
    IF io.kind = kind /\ io.skip > 0 THEN [io EXCEPT !.skip = @ - 1] ELSE io

\* the environment after an operation of this kind that returned Err
Failed(io, kind) ==
    [io EXCEPT !.failed = @ \cup {kind},
               !.kind = IF io.lasting THEN @ ELSE "none"]

(***************************************************************************)
(* record.rs                                                               *)
(***************************************************************************)
Rec(key, payload) == [key |-> key, payload |-> payload]

Item(rec, g, seq) == [rec |-> rec, g |-> g, seq |-> seq]

\* Ordering of two naturals: -1 Less, 0 Equal, 1 Greater.
NatCmp(a, b) == IF a < b THEN -1 ELSE IF a > b THEN 1 ELSE 0

\* [u8; N]::cmp, lexicographic from the first byte.
RECURSIVE LexCmp(_, _, _)
LexCmp(a, b, i) ==
    IF i > Len(a) THEN 0
    ELSE IF a[i] # b[i] THEN NatCmp(a[i], b[i])
    ELSE LexCmp(a, b, i + 1)

KeyCmp(a, b) == LexCmp(a, b, 1)

\* A comparison that looks at the key before the generation.
ItemCmpKeyFirst(x, y) ==
    LET ok == KeyCmp(x.rec.key, y.rec.key)
    IN  IF ok = 0
        THEN LET og == NatCmp(x.g, y.g)
             IN  IF og = 0 THEN NatCmp(x.seq, y.seq) ELSE og
        ELSE ok

\* A comparison that breaks ties by the larger sequence number.
ItemCmpSeqDescending(x, y) ==
    LET og == NatCmp(x.g, y.g)
    IN  IF og = 0
        THEN LET ok == KeyCmp(x.rec.key, y.rec.key)
             IN  IF ok = 0 THEN NatCmp(y.seq, x.seq) ELSE ok
        ELSE og

\* impl Ord for Item
ItemCmp(x, y) ==
    LET og == NatCmp(x.g, y.g)
    IN  IF og = 0
        THEN LET ok == KeyCmp(x.rec.key, y.rec.key)
             IN  IF ok = 0 THEN NatCmp(x.seq, y.seq) ELSE ok
        ELSE og

\* impl PartialEq for Item
ItemEq(x, y) == x.g = y.g /\ x.seq = y.seq /\ x.rec.key = y.rec.key

(***************************************************************************)
(* BinaryHeap<Reverse<Item>>: the queue is kept as the sequence of its     *)
(* items in ItemCmp order, so peek is the head and pop removes it.         *)
(***************************************************************************)
\* A push that takes an item with a key already queued in the same
\* generation for a duplicate and drops it.
HeapPushDedup(h, it) ==
    IF \E i \in 1..Len(h) : h[i].g = it.g /\ h[i].rec.key = it.rec.key THEN h
    ELSE LET k == Cardinality({i \in 1..Len(h) : ItemCmp(h[i], it) <= 0})
         IN  SubSeq(h, 1, k) \o <<it>> \o SubSeq(h, k + 1, Len(h))

HeapPush(h, it) ==
    LET k == Cardinality({i \in 1..Len(h) : ItemCmp(h[i], it) <= 0})
    IN  SubSeq(h, 1, k) \o <<it>> \o SubSeq(h, k + 1, Len(h))

HeapPeek(h) == h[1]

HeapPop(h) == Tail(h)

(***************************************************************************)
(* io.rs: files and DirectWriter.                                          *)
(* fs maps a file name to the file's bytes.  A DirectWriter w holds the    *)
(* name of its file, the offset of its handle (off), the filled part of    *)
(* its aligned buffer (buffer, of length pos), pos and                     *)
(* total_bytes_written; phys counts the physical writes it has completed,  *)
(* sizes holds their sizes and flushes counts the calls of flush on it.    *)
(* An operation gives the writer, the files and the environment after it,  *)
(* and ok: whether it returned Ok.                                         *)
(***************************************************************************)
\* u32::to_le_bytes
U32LE(n) == << n % 256, (n \div 256) % 256, (n \div 65536) % 256,
               (n \div 16777216) % 256 >>

\* u32::from_le_bytes
FromU32LE(b) == b[1] + 256 * b[2] + 65536 * b[3] + 16777216 * b[4]

\* format!("{:03}", idx): the decimal digits of idx, zero-padded to width 3.
RECURSIVE Digits(_)
Digits(n) == IF n < 10 THEN <<n>> ELSE Digits(n \div 10) \o <<n % 10>>

Pad3(idx) ==
    LET d == Digits(idx)
    IN  IF Len(d) >= 3 THEN d ELSE Zeros(3 - Len(d)) \o d

\* format!("{}_{:03}.bin", prefix, idx); the prefix is the same for all runs.
RunFileName(idx) == Pad3(idx)

\* File::write_all at the handle's offset: bytes land at off, a gap past the
\* end of the file reads as zeros.
FileWrite(data, off, bytes) ==
    LET gap == IF off > Len(data) THEN Zeros(off - Len(data)) ELSE <<>>
        keep == SubSeq(data, 1, off)
        rest == SubSeq(data, off + Len(bytes) + 1, Len(data))
    IN  keep \o gap \o bytes \o rest

\* ftruncate / File::set_len
FileTruncate(data, n) ==
    IF n <= Len(data) THEN SubSeq(data, 1, n) ELSE data \o Zeros(n - Len(data))

\* DirectWriter::new
NewWriter(name) ==
    [name |-> name, off |-> 0, buffer |-> <<>>, pos |-> 0,
     total_bytes_written |-> 0, phys |-> 0, sizes |-> {}, flushes |-> 0]

\* self.file.write_all(&self.buffer): one physical write of the whole aligned
\* buffer; a failing one leaves io.torn bytes of it in the file.
PhysWrite(w, fs, io, block) ==
    IF Fails(io, "write")
    THEN [w  |-> [w EXCEPT !.off = @ + io.torn],
          fs |-> [fs EXCEPT ![w.name] =
                     FileWrite(@, w.off, SubSeq(block, 1, io.torn))],
          io |-> Failed(io, "write"), ok |-> FALSE]
    ELSE [w  |-> [w EXCEPT !.off = @ + Len(block), !.phys = @ + 1,
                           !.sizes = @ \cup {Len(block)}],
          fs |-> [fs EXCEPT ![w.name] = FileWrite(@, w.off, block)],
          io |-> Passed(io, "write"), ok |-> TRUE]

\* A write_all that keeps filling when the data reaches the end of the
\* buffer exactly, and issues the write only when more data follows.
RECURSIVE WriteAllLazyFrom(_, _, _, _, _)
WriteAllLazyFrom(w, fs, io, data, offset) ==
    IF offset >= Len(data) THEN [w |-> w, fs |-> fs, io |-> io, ok |-> TRUE]
    ELSE LET remaining == Len(data) - offset
             space == ALIGNMENT - w.pos
         IN  IF remaining > space \/ space = 0
             THEN LET block == w.buffer \o SubSeq(data, offset + 1, offset + space)
                      p == PhysWrite(w, fs, io, block)
                      w2 == [p.w EXCEPT !.buffer = <<>>, !.pos = 0,
                                        !.total_bytes_written = @ + space]
                  IN  IF ~p.ok THEN p
                      ELSE WriteAllLazyFrom(w2, p.fs, p.io, data, offset + space)
             ELSE LET w2 == [w EXCEPT
                                !.buffer = @ \o SubSeq(data, offset + 1, Len(data)),
                                !.pos = @ + remaining,
                                !.total_bytes_written = @ + remaining]
                  IN  WriteAllLazyFrom(w2, fs, io, data, offset + remaining)

\* DirectWriter::write_all, from `offset` on.  When the physical write fails
\* the data copied into the buffer lies past pos, where the next copy or the
\* padding of flush overwrites it: the filled part of the buffer is unchanged.
RECURSIVE WriteAllFrom(_, _, _, _, _)
WriteAllFrom(w, fs, io, data, offset) ==
    IF offset >= Len(data) THEN [w |-> w, fs |-> fs, io |-> io, ok |-> TRUE]
    ELSE LET remaining == Len(data) - offset
             space == ALIGNMENT - w.pos
         IN  IF remaining >= space
             THEN LET block == w.buffer \o SubSeq(data, offset + 1, offset + space)
                      p == PhysWrite(w, fs, io, block)
                      w2 == [p.w EXCEPT !.buffer = <<>>, !.pos = 0,
                                        !.total_bytes_written = @ + space]
                  IN  IF ~p.ok THEN p
                      ELSE WriteAllFrom(w2, p.fs, p.io, data, offset + space)
             ELSE LET w2 == [w EXCEPT
                                !.buffer = @ \o SubSeq(data, offset + 1, Len(data)),
                                !.pos = @ + remaining,
                                !.total_bytes_written = @ + remaining]
                  IN  WriteAllFrom(w2, fs, io, data, offset + remaining)

WriteAll(w, fs, io, data) == WriteAllFrom(w, fs, io, data, 0)

\* ftruncate(fd, total_bytes_written), its return value ignored, on Linux;
\* set_len(total_bytes_written)? elsewhere.
Truncate(w, fs, io) ==
    IF Fails(io, "truncate")
    THEN [w |-> w, fs |-> fs, io |-> Failed(io, "truncate"), ok |-> io.linux]
    ELSE [w  |-> w,
          fs |-> [fs EXCEPT ![w.name] = FileTruncate(@, w.total_bytes_written)],
          io |-> Passed(io, "truncate"), ok |-> TRUE]

\* A flush that pads and writes but leaves the padding in the file.
FlushNoTruncate(w, fs, io) ==
    LET c == [w EXCEPT !.flushes = @ + 1]
    IN  IF c.pos > 0
        THEN LET q == PhysWrite(c, fs, io, c.buffer \o Zeros(ALIGNMENT - c.pos))
             IN  IF ~q.ok THEN q
                 ELSE [q EXCEPT !.w = [q.w EXCEPT !.buffer = <<>>, !.pos = 0]]
        ELSE [w |-> c, fs |-> fs, io |-> io, ok |-> TRUE]

\* DirectWriter::flush
Flush(w, fs, io) ==
    LET c == [w EXCEPT !.flushes = @ + 1]
    IN  IF c.pos > 0
        THEN LET q == PhysWrite(c, fs, io, c.buffer \o Zeros(ALIGNMENT - c.pos))
             IN  IF ~q.ok THEN q
                 ELSE Truncate([q.w EXCEPT !.buffer = <<>>, !.pos = 0], q.fs, q.io)
        ELSE Truncate(c, fs, io)

\* impl Drop for DirectWriter: let _ = self.flush()
DropWriter(w, fs, io) == [Flush(w, fs, io) EXCEPT !.ok = TRUE]

\* open_run_writer: create or truncate the file, wrap it.  A failing open
\* leaves the files as they are and gives no writer.
OpenRunWriter(fs, io, idx) ==
    LET name == RunFileName(idx)
    IN  IF Fails(io, "open")
        THEN [fs |-> fs, io |-> Failed(io, "open"), ok |-> FALSE]
        ELSE [w |-> NewWriter(name), fs |-> (name :> <<>>) @@ fs,
              io |-> Passed(io, "open"), ok |-> TRUE]

\* A frame writer that leaves out the payload's length prefix.
WriteKeyPayloadOneLen(w, fs, io, rec) ==
    LET a == WriteAll(w, fs, io, U32LE(KEY_SIZE))
        b == WriteAll(a.w, a.fs, a.io, rec.key)
    IN  IF ~a.ok THEN a
        ELSE IF ~b.ok THEN b
        ELSE WriteAll(b.w, b.fs, b.io, rec.payload)

\* write_len_key_len_payload
WriteLenKeyLenPayload(w, fs, io, rec) ==
    LET a == WriteAll(w, fs, io, U32LE(KEY_SIZE))
        b == WriteAll(a.w, a.fs, a.io, rec.key)
        c == WriteAll(b.w, b.fs, b.io, U32LE(PAYLOAD_SIZE))
    IN  IF ~a.ok THEN a
        ELSE IF ~b.ok THEN b
        ELSE IF ~c.ok THEN c
        ELSE WriteAll(c.w, c.fs, c.io, rec.payload)

\* The frame write_len_key_len_payload emits for rec.
Frame(rec) == U32LE(KEY_SIZE) \o rec.key \o U32LE(PAYLOAD_SIZE) \o rec.payload

(***************************************************************************)
(* SpecWriter: a DirectWriter on a fresh file, driven by write_all calls   *)
(* of chosen sizes and then flushed.  Call number c writes bytes of value  *)
(* c, so the file's content tells which call each byte came from.          *)
(* dw.logical is the concatenation of the data handed to write_all, dw.ok  *)
(* whether the last call returned Ok and dw.last which call it was.  The   *)
(* caller goes on writing only while the calls return Ok, and may flush    *)
(* again after a flush, as Drop does.                                      *)
(***************************************************************************)
WriteSizes == {0, 1, 108, ALIGNMENT - 1, ALIGNMENT, ALIGNMENT + 1}

DwName == RunFileName(0)

DwInit ==
    LET o == OpenRunWriter(<<>>, NoFault, 0)
    IN  [w |-> o.w, fs |-> o.fs, io |-> NoFault, logical |-> <<>>,
         calls |-> 0, flushes |-> 0, ok |-> TRUE, last |-> "new"]

DwWrite(n) ==
    /\ dw.flushes = 0
    /\ dw.ok
    /\ dw.calls < MaxCalls
    /\ LET data == Fill(n, dw.calls + 1)
           r == WriteAll(dw.w, dw.fs, dw.io, data)
       IN  dw' = [dw EXCEPT !.w = r.w, !.fs = r.fs, !.io = r.io, !.ok = r.ok,
                            !.logical = @ \o data, !.calls = @ + 1,
                            !.last = "write_all"]
    /\ UNCHANGED <<input, heap_cap, st, alt_cap, alt, rd, ord>>

DwFlush ==
    /\ dw.flushes < MaxFlushes
    /\ LET r == Flush(dw.w, dw.fs, dw.io)
       IN  dw' = [dw EXCEPT !.w = r.w, !.fs = r.fs, !.io = r.io, !.ok = r.ok,
                            !.flushes = @ + 1, !.last = "flush"]
    /\ UNCHANGED <<input, heap_cap, st, alt_cap, alt, rd, ord>>

InitWriter ==
    /\ input = <<>>
    /\ heap_cap = 0
    /\ st = Idle
    /\ alt_cap = 0
    /\ alt = Idle
    /\ rd = Idle
    /\ ord = Idle
    /\ dw = DwInit

NextWriter == (\E n \in WriteSizes : DwWrite(n)) \/ DwFlush

SpecWriter == InitWriter /\ [][NextWriter]_vars

(***************************************************************************)
(* io.rs: reading records.                                                 *)
(***************************************************************************)
Min(a, b) == IF a <= b THEN a ELSE b

\* read_exact_into: the reader returned 0 after `read` bytes of the array.
EofOutcome(read) == IF read = 0 THEN Ok(None) ELSE Err("UnexpectedEof")

\* An end of stream right after the key taken for a clean end of input.
PayloadOutcomeCleanEof(key, r) ==
    IF ~r.ok THEN r
    ELSE IF r.val.some THEN Ok(Some(Rec(key, r.val.val)))
    ELSE Ok(None)

\* read_gensort_record: what it returns once read_exact_into::<90> returned r.
PayloadOutcome(key, r) ==
    IF ~r.ok THEN r
    ELSE IF r.val.some THEN Ok(Some(Rec(key, r.val.val)))
    ELSE Err("UnexpectedEof")

\* Read::read of a Cursor / BufReader<File>: all that is left, up to the buffer.
CursorRead(stream, pos, len) == Min(len, Len(stream) - pos)

\* read_exact_into::<n> over such a reader at position pos; buf is the part of
\* the array filled so far.  Gives the result, the reader's new position and
\* the environment after it.  A failing r.read(..)? returns its error.
RECURSIVE ReadExactLoop(_, _, _, _, _)
ReadExactLoop(stream, pos, io, n, buf) ==
    IF Len(buf) >= n THEN [res |-> Ok(Some(buf)), pos |-> pos, io |-> io]
    ELSE IF Fails(io, "read")
    THEN [res |-> Err("Io"), pos |-> pos, io |-> Failed(io, "read")]
    ELSE LET got == CursorRead(stream, pos, n - Len(buf))
         IN  IF got = 0
             THEN [res |-> EofOutcome(Len(buf)), pos |-> pos,
                   io |-> Passed(io, "read")]
             ELSE ReadExactLoop(stream, pos + got, Passed(io, "read"), n,
                                buf \o SubSeq(stream, pos + 1, pos + got))

ReadExactInto(stream, pos, io, n) == ReadExactLoop(stream, pos, io, n, <<>>)

\* read_gensort_record over such a reader.
ReadGensortRecord(stream, pos, io) ==
    LET k == ReadExactInto(stream, pos, io, KEY_SIZE)
    IN  IF ~k.res.ok THEN k
        ELSE IF ~k.res.val.some THEN [k EXCEPT !.res = Ok(None)]
        ELSE LET p == ReadExactInto(stream, k.pos, k.io, PAYLOAD_SIZE)
             IN  [p EXCEPT !.res = PayloadOutcome(k.res.val.val, p.res)]

(***************************************************************************)
(* SpecRead: read_gensort_record called again and again on a reader that   *)
(* hands out its bytes in chunks of any size.  One action is one call of   *)
(* Read::read made by read_exact_into.  Byte i of the stream has the value *)
(* StreamByte(i), never 0, so that a byte of the zero-initialised array    *)
(* that was never filled shows.                                            *)
(*   rd.start  reader position when the current call began                 *)
(*   rd.phase  "key" / "payload": inside read_exact_into::<10> / ::<90>    *)
(*             "done": the call has returned rd.result                     *)
(*   rd.buf    the filled part of read_exact_into's array                  *)
(*   rd.split  some Read::read of the current call returned fewer bytes    *)
(*             than the array still had room for                           *)
(***************************************************************************)
StreamByte(i) == 1 + (i % 251)

RdInit(len) ==
    [stream |-> [i \in 1..len |-> StreamByte(i)], pos |-> 0, start |-> 0,
     phase |-> "key", buf |-> <<>>, key |-> <<>>, split |-> FALSE,
     result |-> Idle]

RdWant == IF rd.phase = "key" THEN KEY_SIZE ELSE PAYLOAD_SIZE

\* read_exact_into returned r
RdReturn(r) ==
    IF rd.phase = "key"
    THEN IF r.ok /\ r.val.some
         THEN [rd EXCEPT !.phase = "payload", !.key = r.val.val, !.buf = <<>>]
         ELSE [rd EXCEPT !.phase = "done", !.result = r]
    ELSE [rd EXCEPT !.phase = "done", !.result = PayloadOutcome(rd.key, r)]

\* r.read(&mut buf[read..]) returns n > 0
RdChunk(n) ==
    /\ rd.phase \in {"key", "payload"}
    /\ n >= 1
    /\ n <= Min(RdWant - Len(rd.buf), Len(rd.stream) - rd.pos)
    /\ LET buf == rd.buf \o SubSeq(rd.stream, rd.pos + 1, rd.pos + n)
       IN  rd' = IF Len(buf) < RdWant
                 THEN [rd EXCEPT !.pos = @ + n, !.buf = buf, !.split = TRUE]
                 ELSE [RdReturn(Ok(Some(buf))) EXCEPT !.pos = @ + n]
    /\ UNCHANGED <<input, heap_cap, st, alt_cap, alt, dw, ord>>

\* r.read(&mut buf[read..]) returns 0: the stream is exhausted
RdEof ==
    /\ rd.phase \in {"key", "payload"}
    /\ rd.pos = Len(rd.stream)
    /\ rd' = RdReturn(EofOutcome(Len(rd.buf)))
    /\ UNCHANGED <<input, heap_cap, st, alt_cap, alt, dw, ord>>

\* the caller got a record and calls read_gensort_record again
RdAgain ==
    /\ rd.phase = "done"
    /\ rd.result.ok /\ rd.result.val.some
    /\ rd' = [rd EXCEPT !.phase = "key", !.start = rd.pos, !.buf = <<>>,
                        !.key = <<>>, !.split = FALSE, !.result = Idle]
    /\ UNCHANGED <<input, heap_cap, st, alt_cap, alt, dw, ord>>

InitRead ==
    /\ input = <<>>
    /\ heap_cap = 0
    /\ st = Idle
    /\ alt_cap = 0
    /\ alt = Idle
    /\ dw = Idle
    /\ \E len \in 0..MaxStream : rd = RdInit(len)
    /\ ord = Idle

NextRead == (\E n \in 1..PAYLOAD_SIZE : RdChunk(n)) \/ RdEof \/ RdAgain

SpecRead == InitRead /\ [][NextRead]_vars

(***************************************************************************)
(* replacement_selection.rs: ReplacementSelection::run.                    *)
(* A state s of run() holds its locals (named as in the source), the       *)
(* reader's position pos, the run files fs, and                            *)
(*   pc      "prime"   at the head of the priming loop                     *)
(*           "primed"  after it                                            *)
(*           "loop"    at the head of the main loop                        *)
(*           "refill"  after the pop and the write, before the refill read *)
(*           "done"    returned, with result = Some(Ok(count)) or          *)
(*                     Some(Err(kind))                                     *)
(*   item    the item popped in this iteration, while it is live           *)
(*   io      the environment of the I/O operations                         *)
(*   opens   the run indexes open_run_writer returned a writer for, in     *)
(*           order                                                         *)
(*   out     per run opened, the records whose frame its writer took in    *)
(*           whole, in order                                               *)
(*   outseq  per run opened, the sequence numbers of those records' items  *)
(*   dropped the writers dropped so far, each as its drop left it          *)
(***************************************************************************)
RunInit ==
    [pc |-> "prime", pos |-> 0, heap |-> <<>>, seq |-> 0, current_gen |-> 0,
     run_idx |-> 0, last_out_key |-> None, writer |-> None,
     records_in_current_run |-> 0, item |-> None, fs |-> <<>>,
     io |-> NoFault, opens |-> <<>>, out |-> <<>>, outseq |-> <<>>,
     dropped |-> <<>>, result |-> None]

\* A return that lets go of the writer without dropping it.
ReturnNoDrop(s, r) ==
    [s EXCEPT !.pc = "done", !.result = Some(r), !.writer = None,
              !.item = None]

\* return r: the locals go out of scope, the writer (if any) is dropped
Return(s, r) ==
    LET d == DropWriter(s.writer.val, s.fs, s.io)
    IN  IF s.writer.some
        THEN [s EXCEPT !.pc = "done", !.result = Some(r), !.writer = None,
                       !.item = None, !.fs = d.fs, !.io = d.io,
                       !.dropped = Append(@, d.w)]
        ELSE [s EXCEPT !.pc = "done", !.result = Some(r), !.item = None]

\* A priming loop that hands Item::new the sequence number for the
\* generation and the generation for the sequence number.
PrimeStepSwapped(s, inp, cap) ==
    IF Len(s.heap) < cap
    THEN LET r == ReadGensortRecord(inp, s.pos, s.io)
         IN  IF ~r.res.ok
             THEN Return([s EXCEPT !.pos = r.pos, !.io = r.io], r.res)
             ELSE IF r.res.val.some
             THEN [s EXCEPT !.pos = r.pos, !.io = r.io,
                            !.heap = HeapPush(@, Item(r.res.val.val, s.seq, 0)),
                            !.seq = @ + 1]
             ELSE [s EXCEPT !.pos = r.pos, !.io = r.io, !.pc = "primed"]
    ELSE [s EXCEPT !.pc = "primed"]

\* A priming loop that reads one record more than the capacity.
PrimeStepOneMore(s, inp, cap) ==
    IF Len(s.heap) <= cap
    THEN LET r == ReadGensortRecord(inp, s.pos, s.io)
         IN  IF ~r.res.ok
             THEN Return([s EXCEPT !.pos = r.pos, !.io = r.io], r.res)
             ELSE IF r.res.val.some
             THEN [s EXCEPT !.pos = r.pos, !.io = r.io,
                            !.heap = HeapPush(@, Item(r.res.val.val, 0, s.seq)),
                            !.seq = @ + 1]
             ELSE [s EXCEPT !.pos = r.pos, !.io = r.io, !.pc = "primed"]
    ELSE [s EXCEPT !.pc = "primed"]

\* A priming loop that stops one record short of the capacity.
PrimeStepOneLess(s, inp, cap) ==
    IF Len(s.heap) + 1 < cap
    THEN LET r == ReadGensortRecord(inp, s.pos, s.io)
         IN  IF ~r.res.ok
             THEN Return([s EXCEPT !.pos = r.pos, !.io = r.io], r.res)
             ELSE IF r.res.val.some
             THEN [s EXCEPT !.pos = r.pos, !.io = r.io,
                            !.heap = HeapPush(@, Item(r.res.val.val, 0, s.seq)),
                            !.seq = @ + 1]
             ELSE [s EXCEPT !.pos = r.pos, !.io = r.io, !.pc = "primed"]
    ELSE [s EXCEPT !.pc = "primed"]

\* One evaluation of the priming loop's condition, and its body.
PrimeStep(s, inp, cap) ==
    IF Len(s.heap) < cap
    THEN LET r == ReadGensortRecord(inp, s.pos, s.io)
         IN  IF ~r.res.ok
             THEN Return([s EXCEPT !.pos = r.pos, !.io = r.io], r.res)
             ELSE IF r.res.val.some
             THEN [s EXCEPT !.pos = r.pos, !.io = r.io,
                            !.heap = HeapPush(@, Item(r.res.val.val, 0, s.seq)),
                            !.seq = @ + 1]
             ELSE [s EXCEPT !.pos = r.pos, !.io = r.io, !.pc = "primed"]
    ELSE [s EXCEPT !.pc = "primed"]

\* An empty-queue return that comes after the first run file was opened.
ReturnEmptyAfterOpen(s) ==
    LET o == OpenRunWriter(s.fs, s.io, s.run_idx)
    IN  IF ~o.ok THEN Return([s EXCEPT !.io = o.io], Err("Io"))
        ELSE Return([s EXCEPT !.writer = Some(o.w), !.fs = o.fs, !.io = o.io,
                              !.opens = Append(@, s.run_idx),
                              !.out = Append(@, <<>>),
                              !.outseq = Append(@, <<>>)],
                    Ok(0))

\* if heap.is_empty() { return Ok(0); }
ReturnEmptyStep(s) == Return(s, Ok(0))

\* Open first run writer
OpenFirstStep(s) ==
    LET o == OpenRunWriter(s.fs, s.io, s.run_idx)
    IN  IF ~o.ok THEN Return([s EXCEPT !.io = o.io], Err("Io"))
        ELSE [s EXCEPT !.writer = Some(o.w), !.fs = o.fs, !.io = o.io,
                       !.opens = Append(@, s.run_idx), !.out = Append(@, <<>>),
                       !.outseq = Append(@, <<>>),
                       !.records_in_current_run = 0, !.pc = "loop"]

\* A rotation that opens the next writer under the index of the last.
RotateStepSameIndex(s) ==
    IF s.records_in_current_run > 0
    THEN LET f == Flush(s.writer.val, s.fs, s.io)
             o == OpenRunWriter(f.fs, f.io, s.run_idx)
             d == DropWriter(f.w, o.fs, o.io)
             flushed == [s EXCEPT !.writer = Some(f.w), !.fs = f.fs,
                                  !.io = f.io]
         IN  IF ~f.ok THEN Return(flushed, Err("Io"))
             ELSE IF ~o.ok
             THEN Return([flushed EXCEPT !.current_gen = @ + 1,
                                         !.last_out_key = None,
                                         !.io = o.io],
                         Err("Io"))
             ELSE [s EXCEPT !.current_gen = @ + 1,
                            !.last_out_key = None,
                            !.writer = Some(o.w),
                            !.fs = d.fs, !.io = d.io,
                            !.dropped = Append(@, d.w),
                            !.opens = Append(@, s.run_idx),
                            !.out = Append(@, <<>>),
                            !.outseq = Append(@, <<>>),
                            !.records_in_current_run = 0]
    ELSE [s EXCEPT !.current_gen = @ + 1]

\* The smallest item is not from current_gen: rotate (or only advance the
\* generation when nothing was written to the current run), then `continue`.
RotateStep(s) ==
    IF s.records_in_current_run > 0
    THEN LET f == Flush(s.writer.val, s.fs, s.io)
             o == OpenRunWriter(f.fs, f.io, s.run_idx + 1)
             \* the assignment drops the writer it replaces
             d == DropWriter(f.w, o.fs, o.io)
             flushed == [s EXCEPT !.writer = Some(f.w), !.fs = f.fs,
                                  !.io = f.io]
         IN  IF ~f.ok THEN Return(flushed, Err("Io"))
             ELSE IF ~o.ok
             THEN Return([flushed EXCEPT !.run_idx = @ + 1,
                                         !.current_gen = @ + 1,
                                         !.last_out_key = None,
                                         !.io = o.io],
                         Err("Io"))
             ELSE [s EXCEPT !.run_idx = @ + 1,
                            !.current_gen = @ + 1,
                            !.last_out_key = None,
                            !.writer = Some(o.w),
                            !.fs = d.fs, !.io = d.io,
                            !.dropped = Append(@, d.w),
                            !.opens = Append(@, s.run_idx + 1),
                            !.out = Append(@, <<>>),
                            !.outseq = Append(@, <<>>),
                            !.records_in_current_run = 0]
    ELSE [s EXCEPT !.current_gen = @ + 1]

\* Pop next output record, write it.
PopStep(s) ==
    LET it == HeapPeek(s.heap)
        wr == WriteLenKeyLenPayload(s.writer.val, s.fs, s.io, it.rec)
        popped == [s EXCEPT !.heap = HeapPop(@),
                            !.item = Some(it),
                            !.writer = Some(wr.w), !.fs = wr.fs, !.io = wr.io]
    IN  IF ~wr.ok THEN Return(popped, Err("Io"))
        ELSE [popped EXCEPT
                  !.out = [@ EXCEPT ![Len(@)] = Append(@, it.rec)],
                  !.outseq = [@ EXCEPT ![Len(@)] = Append(@, it.seq)],
                  !.records_in_current_run = @ + 1,
                  !.last_out_key = Some(it.rec.key),
                  !.pc = "refill"]

\* A refill that freezes a record into the generation after the next.
TargetGenSkip(last_out_key, key, current_gen) ==
    IF last_out_key.some /\ KeyCmp(key, last_out_key.val) < 0
    THEN current_gen + 2
    ELSE current_gen

\* A refill that freezes every record it reads.
TargetGenAlwaysFreeze(last_out_key, key, current_gen) == current_gen + 1

\* A refill that never freezes a record.
TargetGenNeverFreeze(last_out_key, key, current_gen) == current_gen

\* A refill that also freezes a record whose key equals the last one emitted.
TargetGenFreezeEqual(last_out_key, key, current_gen) ==
    IF last_out_key.some /\ KeyCmp(key, last_out_key.val) <= 0
    THEN current_gen + 1
    ELSE current_gen

\* the refill's choice of generation
TargetGen(last_out_key, key, current_gen) ==
    IF last_out_key.some /\ KeyCmp(key, last_out_key.val) < 0
    THEN current_gen + 1
    ELSE current_gen

\* Refill: try to read one more input record and decide its generation.
RefillStep(s, inp) ==
    LET r == ReadGensortRecord(inp, s.pos, s.io)
    IN  IF ~r.res.ok THEN Return([s EXCEPT !.pos = r.pos, !.io = r.io], r.res)
        ELSE IF r.res.val.some
        THEN LET rec == r.res.val.val
                 g == TargetGen(s.last_out_key, rec.key, s.current_gen)
             IN  [s EXCEPT !.pos = r.pos, !.io = r.io,
                           !.heap = HeapPush(@, Item(rec, g, s.seq)),
                           !.seq = @ + 1,
                           !.item = None,
                           !.pc = "loop"]
        ELSE [s EXCEPT !.pos = r.pos, !.io = r.io, !.item = None,
                       !.pc = "loop"]

\* The queue is empty: flush the last writer and return the run count.
FinishStep(s) ==
    LET f == Flush(s.writer.val, s.fs, s.io)
        flushed == [s EXCEPT !.writer = Some(f.w), !.fs = f.fs, !.io = f.io]
    IN  IF ~f.ok THEN Return(flushed, Err("Io"))
        ELSE Return(flushed, Ok(s.run_idx + 1))

\* Which step run() takes next from s.
RunStep(s, inp, cap) ==
    CASE s.pc = "prime" -> PrimeStep(s, inp, cap)
      [] s.pc = "primed" ->
            IF s.heap = <<>> THEN ReturnEmptyStep(s) ELSE OpenFirstStep(s)
      [] s.pc = "loop" ->
            IF s.heap = <<>> THEN FinishStep(s)
            ELSE IF HeapPeek(s.heap).g # s.current_gen THEN RotateStep(s)
            ELSE PopStep(s)
      [] s.pc = "refill" -> RefillStep(s, inp)
      [] OTHER -> s

\* run() from s to its return.
RECURSIVE RunFrom(_, _, _)
RunFrom(s, inp, cap) ==
    IF s.pc = "done" THEN s ELSE RunFrom(RunStep(s, inp, cap), inp, cap)

(***************************************************************************)
(* Inputs.  Key number k is the 10-byte key whose first byte is k \div 2   *)
(* and whose last byte is k % 2, the bytes between being 0: byte order on  *)
(* keys is number order, decided by the first byte or only by the last.    *)
(* The record at position i of an input carries a payload whose first byte *)
(* is i % 2, so equal keys come with equal and with different payloads.    *)
(***************************************************************************)
KeyNo(k) ==
    [i \in 1..KEY_SIZE |->
        IF i = 1 THEN k \div 2 ELSE IF i = KEY_SIZE THEN k % 2 ELSE 0]

PayloadAt(i) == [j \in 1..PAYLOAD_SIZE |-> IF j = 1 THEN i % 2 ELSE 0]

\* the records of the input whose keys are numbered ks
RecordsOf(ks) == [i \in 1..Len(ks) |-> Rec(KeyNo(ks[i]), PayloadAt(i))]

RECURSIVE Flatten(_)
Flatten(recs) ==
    IF recs = <<>> THEN <<>>
    ELSE Head(recs).key \o Head(recs).payload \o Flatten(Tail(recs))

\* the byte stream: the records, then `tail` bytes of one more
StreamOf(ks, tail) == Flatten(RecordsOf(ks)) \o Fill(tail, 1)

KeySeqs(n) == [1..n -> 0..MaxKey]

\* trailing bytes: none, part of a key, a whole key, a key and part of a payload
TailSizes == {0, 4, KEY_SIZE, 57}

\* every key sequence of length 0..MaxLen over the keys 0..MaxKey, each with
\* every tail
Enumerated ==
    {StreamOf(ks, t) : ks \in UNION {KeySeqs(n) : n \in 0..MaxLen}, t \in TailSizes}

\* strictly descending and strictly ascending inputs of 1..SortedLen records
Descending(n) == [i \in 1..n |-> n - i]

Ascending(n) == [i \in 1..n |-> i - 1]

Sorted ==
    {StreamOf(Descending(n), 0) : n \in 1..SortedLen}
        \cup {StreamOf(Ascending(n), 0) : n \in 1..SortedLen}

\* LongLen records: non-decreasing keys and then the smallest key, so the
\* first run outgrows the writer's buffer and is followed by a second run
LongKeys == [i \in 1..LongLen |-> IF i = LongLen THEN 0 ELSE 1 + (i \div 8)]

Inputs == Enumerated \cup Sorted \cup {StreamOf(LongKeys, 0)}

\* The complete records of a byte stream, in order.
InputRecords(stream) ==
    [i \in 1..(Len(stream) \div (KEY_SIZE + PAYLOAD_SIZE)) |->
        LET at == (i - 1) * (KEY_SIZE + PAYLOAD_SIZE)
        IN  Rec(SubSeq(stream, at + 1, at + KEY_SIZE),
                SubSeq(stream, at + KEY_SIZE + 1, at + KEY_SIZE + PAYLOAD_SIZE))]

Complete(stream) == Len(stream) % (KEY_SIZE + PAYLOAD_SIZE) = 0

\* tests/integration_test.rs, read_run_file_keys: the frames of a run file,
\* read back until fewer than 4 bytes are left; Err when a frame is cut short
\* or a length prefix is not the expected one.  (The test keeps the first key
\* byte of each frame; here the whole record is kept.)
RECURSIVE ReadRunFileFrom(_, _, _)
ReadRunFileFrom(data, pos, acc) ==
    IF Len(data) - pos < 4 THEN Ok(acc)
    ELSE LET key_len == FromU32LE(SubSeq(data, pos + 1, pos + 4))
             kend == pos + 4 + key_len
         IN  IF key_len # 10 THEN Err("key_len")
             ELSE IF Len(data) < kend + 4 THEN Err("UnexpectedEof")
             ELSE LET payload_len == FromU32LE(SubSeq(data, kend + 1, kend + 4))
                      pend == kend + 4 + payload_len
                  IN  IF payload_len # 90 THEN Err("payload_len")
                      ELSE IF Len(data) < pend THEN Err("UnexpectedEof")
                      ELSE ReadRunFileFrom(data, pend,
                               Append(acc, Rec(SubSeq(data, pos + 5, kend),
                                               SubSeq(data, kend + 5, pend))))

ReadRunFile(data) == ReadRunFileFrom(data, 0, <<>>)

(***************************************************************************)
(* Spec: run() on every input of Inputs under every capacity 0..MaxCap.    *)
(***************************************************************************)
Others == <<alt_cap, alt, dw, rd, ord>>

Prime ==
    /\ st.pc = "prime"
    /\ st' = PrimeStep(st, input, heap_cap)
    /\ UNCHANGED <<input, heap_cap, Others>>

ReturnEmpty ==
    /\ st.pc = "primed"
    /\ st.heap = <<>>
    /\ st' = ReturnEmptyStep(st)
    /\ UNCHANGED <<input, heap_cap, Others>>

OpenFirst ==
    /\ st.pc = "primed"
    /\ st.heap # <<>>
    /\ st' = OpenFirstStep(st)
    /\ UNCHANGED <<input, heap_cap, Others>>

Rotate ==
    /\ st.pc = "loop"
    /\ st.heap # <<>>
    /\ HeapPeek(st.heap).g # st.current_gen
    /\ st' = RotateStep(st)
    /\ UNCHANGED <<input, heap_cap, Others>>

Pop ==
    /\ st.pc = "loop"
    /\ st.heap # <<>>
    /\ HeapPeek(st.heap).g = st.current_gen
    /\ st' = PopStep(st)
    /\ UNCHANGED <<input, heap_cap, Others>>

Refill ==
    /\ st.pc = "refill"
    /\ st' = RefillStep(st, input)
    /\ UNCHANGED <<input, heap_cap, Others>>

Finish ==
    /\ st.pc = "loop"
    /\ st.heap = <<>>
    /\ st' = FinishStep(st)
    /\ UNCHANGED <<input, heap_cap, Others>>

Init ==
    /\ input \in Inputs
    /\ heap_cap \in 0..MaxCap
    /\ st = RunInit
    /\ alt_cap = 0
    /\ alt = Idle
    /\ dw = Idle
    /\ rd = Idle
    /\ ord = Idle

Next == Prime \/ ReturnEmpty \/ OpenFirst \/ Rotate \/ Pop \/ Refill \/ Finish

Spec == Init /\ [][Next]_vars

(***************************************************************************)
(* SpecMono: run() to its return on one complete input under two           *)
(* capacities 1 <= heap_cap <= alt_cap.                                    *)
(***************************************************************************)
RunBoth ==
    /\ st.pc = "prime"
    /\ st' = RunFrom(st, input, heap_cap)
    /\ alt' = RunFrom(RunInit, input, alt_cap)
    /\ UNCHANGED <<input, heap_cap, alt_cap, dw, rd, ord>>

InitMono ==
    /\ input \in {i \in Inputs : Complete(i)}
                 \cup {StreamOf(ks, 0) : ks \in KeySeqs(MonoLen)}
    /\ heap_cap \in 1..MaxCap
    /\ alt_cap \in heap_cap..MaxCap
    /\ st = RunInit
    /\ alt = RunInit
    /\ dw = Idle
    /\ rd = Idle
    /\ ord = Idle

NextMono == RunBoth

SpecMono == InitMono /\ [][NextMono]_vars

(***************************************************************************)
(* SpecFault: run() in an environment where one kind of I/O operation      *)
(* fails, once or from some point on, on either build.  The inputs are     *)
(* descending (a rotation per heap_cap records) and ascending ones of up   *)
(* to FaultLen records, with and without a cut record at the end, and the  *)
(* long input, whose first run fills the writer's buffer.                  *)
(***************************************************************************)
TornSizes == {0, 512}

ReadFaults == {[NoFault EXCEPT !.kind = "read", !.skip = k] : k \in 0..MaxSkip}

OpenFaults == {[NoFault EXCEPT !.kind = "open", !.skip = k] : k \in 0..MaxSkip}

WriteFaults ==
    {[NoFault EXCEPT !.kind = "write", !.skip = k, !.lasting = l, !.torn = n] :
        k \in 0..MaxSkip, l \in BOOLEAN, n \in TornSizes}

TruncateFaults ==
    {[NoFault EXCEPT !.kind = "truncate", !.skip = k, !.lasting = l,
                     !.linux = x] :
        k \in 0..MaxSkip, l \in BOOLEAN, x \in BOOLEAN}

Faults ==
    {NoFault} \cup ReadFaults \cup OpenFaults \cup WriteFaults
        \cup TruncateFaults

FaultInputs ==
    {StreamOf(Descending(n), t) : n \in 0..FaultLen, t \in {0, 57}}
        \cup {StreamOf(Ascending(n), 0) : n \in 2..FaultLen}
        \cup {StreamOf(LongKeys, 0)}

InitFault ==
    /\ input \in FaultInputs
    /\ heap_cap \in 0..MaxCap
    /\ \E f \in Faults : st = [RunInit EXCEPT !.io = f]
    /\ alt_cap = 0
    /\ alt = Idle
    /\ dw = Idle
    /\ rd = Idle
    /\ ord = Idle

SpecFault == InitFault /\ [][Next]_vars

(***************************************************************************)
(* SpecOrder: Item::cmp and Item::eq applied to two items x and y drawn    *)
(* from every generation, key, sequence number and two payloads.           *)
(***************************************************************************)
OrdItems ==
    {Item(Rec(KeyNo(k), PayloadAt(p)), g, s) :
        k \in 0..MaxKey, p \in 0..1, g \in 0..OrdGen, s \in 0..OrdSeq}

OrdCompare ==
    /\ ord.phase = "new"
    /\ ord' = [ord EXCEPT !.phase = "compared",
                          !.xy = ItemCmp(ord.x, ord.y),
                          !.yx = ItemCmp(ord.y, ord.x),
                          !.eq = ItemEq(ord.x, ord.y)]
    /\ UNCHANGED <<input, heap_cap, st, alt_cap, alt, dw, rd>>

InitOrder ==
    /\ input = <<>>
    /\ heap_cap = 0
    /\ st = Idle
    /\ alt_cap = 0
    /\ alt = Idle
    /\ dw = Idle
    /\ rd = Idle
    /\ \E x, y \in OrdItems :
          ord = [phase |-> "new", x |-> x, y |-> y, xy |-> 0, yx |-> 0,
                 eq |-> FALSE]

NextOrder == OrdCompare

SpecOrder == InitOrder /\ [][NextOrder]_vars

(***************************************************************************)
(* What the claims speak of.                                               *)
(***************************************************************************)
Done == st.pc = "done"

ReturnedOk == Done /\ st.result.val.ok

Count == st.result.val.val

FRAME_SIZE == 108

RECURSIVE FramesOf(_)
FramesOf(recs) ==
    IF recs = <<>> THEN <<>> ELSE Frame(Head(recs)) \o FramesOf(Tail(recs))

RECURSIVE SeqBag(_)
SeqBag(q) ==
    IF q = <<>> THEN EmptyBag ELSE SetToBag({Head(q)}) (+) SeqBag(Tail(q))

\* the records read back from the run files named in `names`, as a bag
RECURSIVE FilesBag(_, _)
FilesBag(fs, names) ==
    IF names = {} THEN EmptyBag
    ELSE LET n == CHOOSE x \in names : TRUE
         IN  SeqBag(ReadRunFile(fs[n]).val) (+) FilesBag(fs, names \ {n})

AllReadable(fs) == \A n \in DOMAIN fs : ReadRunFile(fs[n]).ok

NonDecreasing(recs) ==
    \A i \in 1..(Len(recs) - 1) : KeyCmp(recs[i].key, recs[i + 1].key) <= 0

StrictlyDecreasing(recs) ==
    \A i \in 1..(Len(recs) - 1) : KeyCmp(recs[i].key, recs[i + 1].key) > 0

NumRecords == Len(InputRecords(input))

\* the file of the i-th run opened
RunFile(i) == st.fs[RunFileName(st.opens[i])]

(***************************************************************************)
(* Claims.                                                                 *)
(***************************************************************************)

\* C1 as stated: for every complete input and every capacity H, after run()
\* has returned Ok the records read back from all run files together are, as
\* a multiset, the records of the input.
C1_AnyCapacity ==
    (ReturnedOk /\ Complete(input)) =>
        /\ AllReadable(st.fs)
        /\ FilesBag(st.fs, DOMAIN st.fs) = SeqBag(InputRecords(input))

\* C1 for the capacities H >= 1 only: for every complete input, after run()
\* has returned Ok the records read back from all run files together are, as
\* a multiset (key and payload, duplicates kept), the records of the input.
C1_RecordsConserved ==
    (ReturnedOk /\ Complete(input) /\ heap_cap >= 1) =>
        /\ AllReadable(st.fs)
        /\ FilesBag(st.fs, DOMAIN st.fs) = SeqBag(InputRecords(input))

\* C1 witness: a successful run with H >= 1 over an input holding the same
\* record twice and the same key with two payloads, written to two runs.
C1_Witness ==
    /\ ReturnedOk /\ Complete(input) /\ heap_cap >= 1
    /\ Count >= 2
    /\ \E i, j, k \in 1..NumRecords :
          /\ i < j /\ j < k
          /\ InputRecords(input)[i] = InputRecords(input)[k]
          /\ InputRecords(input)[i].key = InputRecords(input)[j].key
          /\ InputRecords(input)[i] # InputRecords(input)[j]

\* C2: for every input and every H >= 1, the records handed to each run's
\* writer are in non-decreasing key order at every moment, and once run() has
\* returned every run file reads back as records in non-decreasing key order.
C2_RunsSorted ==
    heap_cap >= 1 =>
        /\ \A i \in 1..Len(st.out) : NonDecreasing(st.out[i])
        /\ Done => \A n \in DOMAIN st.fs :
                      /\ ReadRunFile(st.fs[n]).ok
                      /\ NonDecreasing(ReadRunFile(st.fs[n]).val)

\* C2 witness: run() has returned two runs, the first of which took in a
\* refill record (it holds more records than the capacity) and has a key rise.
C2_Witness ==
    /\ ReturnedOk /\ heap_cap >= 1 /\ Count >= 2
    /\ Len(st.out[1]) > heap_cap
    /\ ~StrictlyDecreasing(st.out[1])
    /\ \E i \in 1..(Len(st.out[1]) - 1) : st.out[1][i].key # st.out[1][i + 1].key

\* C3: for a non-decreasing input of N >= 1 complete records and every
\* H >= 1, run() returns 1 and the only run file, number 000, holds the N
\* records in input order.
C3_SortedInputOneRun ==
    (Done /\ Complete(input) /\ NumRecords >= 1 /\ heap_cap >= 1
          /\ NonDecreasing(InputRecords(input))) =>
        /\ st.result = Some(Ok(1))
        /\ DOMAIN st.fs = {RunFileName(0)}
        /\ ReadRunFile(st.fs[RunFileName(0)]) = Ok(InputRecords(input))

\* C3 witness: run() has returned on a non-decreasing input longer than the
\* capacity that repeats a key.
C3_Witness ==
    /\ Done /\ Complete(input) /\ heap_cap >= 1
    /\ NumRecords > heap_cap
    /\ NonDecreasing(InputRecords(input))
    /\ ~StrictlyDecreasing(InputRecords(input))
    /\ \E i \in 1..(NumRecords - 1) :
          InputRecords(input)[i].key = InputRecords(input)[i + 1].key
    /\ \E i \in 1..(NumRecords - 1) :
          InputRecords(input)[i].key # InputRecords(input)[i + 1].key

\* C4: for a strictly descending input of N complete records and every
\* H >= 1, run() returns ceil(N / H).
C4_DescendingRunCount ==
    (Done /\ Complete(input) /\ heap_cap >= 1
          /\ StrictlyDecreasing(InputRecords(input))) =>
        st.result = Some(Ok((NumRecords + heap_cap - 1) \div heap_cap))

\* C4 witness: run() has returned on a strictly descending input whose length
\* is no multiple of the capacity H >= 2 and more than twice H.
C4_Witness ==
    /\ Done /\ Complete(input) /\ heap_cap >= 2
    /\ StrictlyDecreasing(InputRecords(input))
    /\ NumRecords > 2 * heap_cap
    /\ NumRecords % heap_cap # 0

\* C5: for every complete input and capacities 1 <= H1 <= H2, run() under H2
\* returns a count no larger than under H1.
C5_CountMonotone ==
    (st.pc = "done" /\ alt.pc = "done") =>
        /\ st.result.val.ok /\ alt.result.val.ok
        /\ alt.result.val.val <= st.result.val.val

\* C5 witness: both runs have returned, on an input neither ascending nor
\* descending, the larger capacity with fewer runs, and more than one.
C5_Witness ==
    /\ st.pc = "done" /\ alt.pc = "done"
    /\ heap_cap < alt_cap
    /\ ~NonDecreasing(InputRecords(input))
    /\ ~StrictlyDecreasing(InputRecords(input))
    /\ alt.result.val.val < st.result.val.val
    /\ alt.result.val.val >= 2

\* C6: on an empty input, under every capacity, run() never opens a run file
\* and no file exists at any moment, and it returns Ok(0).
C6_EmptyInput ==
    input = <<>> =>
        /\ st.opens = <<>>
        /\ DOMAIN st.fs = {}
        /\ Done => st.result = Some(Ok(0))

\* C6 witness: run() has returned on the empty input under a capacity >= 1.
C6_Witness == Done /\ input = <<>> /\ heap_cap >= 1

\* the run indexes 0, 1, ..., n-1
UpTo(n) == [i \in 1..n |-> i - 1]

\* C7 as stated: on a successful run() the returned count is run_idx + 1 and
\* the number of run files opened, the files being opened as 0, 1, ..., R-1.
C7_CountIsRunIdxPlusOne ==
    ReturnedOk =>
        /\ Count = st.run_idx + 1
        /\ Count = Len(st.opens)
        /\ st.opens = UpTo(Count)

\* C7 amended: on a successful run() the returned count R is the number of
\* run files opened, and R = run_idx + 1 when a run file was opened (when
\* none was, R = 0 and run_idx = 0); at every moment the files opened so far
\* are 0, 1, ..., each once, with names 000, 001, ... all different, and every
\* file but the last opened is final: it holds exactly the frames of the
\* records handed to its writer.
C7_RunFilesInOrder ==
    /\ st.opens = UpTo(Len(st.opens))
    /\ \A i, j \in 1..Len(st.opens) :
          i # j => RunFileName(st.opens[i]) # RunFileName(st.opens[j])
    /\ DOMAIN st.fs = {RunFileName(st.opens[i]) : i \in 1..Len(st.opens)}
    /\ Len(st.out) = Len(st.opens)
    /\ \A i \in 1..(Len(st.opens) - 1) : RunFile(i) = FramesOf(st.out[i])
    /\ st.writer.some => st.writer.val.name = RunFileName(st.run_idx)
    /\ ReturnedOk =>
          /\ Count = Len(st.opens)
          /\ IF st.opens = <<>> THEN Count = 0 /\ st.run_idx = 0
             ELSE Count = st.run_idx + 1

\* C7 witness: a third run is open and has records while run() is going on.
C7_Witness ==
    /\ st.pc = "refill"
    /\ Len(st.opens) = 3
    /\ st.records_in_current_run >= 1

\* C9: after a successful run() the file of each run opened is exactly the
\* frames of the records handed to its writer, in that order, each frame
\* FRAME_SIZE bytes: the file is FRAME_SIZE * k bytes long.
C9_FilesAreFrames ==
    ReturnedOk =>
        \A i \in 1..Len(st.opens) :
            /\ RunFile(i) = FramesOf(st.out[i])
            /\ Len(RunFile(i)) = FRAME_SIZE * Len(st.out[i])
            /\ \A k \in 1..Len(st.out[i]) : Len(Frame(st.out[i][k])) = FRAME_SIZE

\* C9 witness: run() has returned two runs, the first longer than the
\* writer's buffer and no multiple of it.
C9_Witness ==
    /\ ReturnedOk /\ Len(st.opens) = 2
    /\ Len(RunFile(1)) > ALIGNMENT
    /\ Len(RunFile(1)) % ALIGNMENT # 0
    /\ Len(RunFile(2)) > 0

\* C8: after any write_all calls totalling L bytes and then flush, the file
\* is exactly L bytes long.
C8_FlushedLength ==
    dw.flushes >= 1 => Len(dw.fs[DwName]) = Len(dw.logical)

\* C8 witness: flushed after calls that filled the buffer more than once and
\* left a partial buffer, one call being empty.
C8_Witness ==
    /\ dw.flushes >= 1
    /\ Len(dw.logical) > 2 * ALIGNMENT
    /\ Len(dw.logical) % ALIGNMENT # 0
    /\ dw.w.phys >= 3

\* C10: whatever the chunks, a call of read_gensort_record that began with
\* no byte left returns Ok(None) and no other call does; one that began with
\* at least 100 bytes left returns the record made of the next 10 and the 90
\* bytes after them and leaves the reader behind them; one that began with 1
\* to 99 bytes left returns an UnexpectedEof error.
C10_ReadOutcome ==
    rd.phase = "done" =>
        LET left == Len(rd.stream) - rd.start
            whole == Rec(SubSeq(rd.stream, rd.start + 1, rd.start + KEY_SIZE),
                         SubSeq(rd.stream, rd.start + KEY_SIZE + 1,
                                rd.start + KEY_SIZE + PAYLOAD_SIZE))
        IN  /\ (rd.result = Ok(None)) <=> (left = 0)
            /\ left >= KEY_SIZE + PAYLOAD_SIZE =>
                  /\ rd.result = Ok(Some(whole))
                  /\ rd.pos = rd.start + KEY_SIZE + PAYLOAD_SIZE
            /\ (left >= 1 /\ left < KEY_SIZE + PAYLOAD_SIZE) =>
                  rd.result = Err("UnexpectedEof")

\* C10 witness: a second call, its key read in pieces, met the end of the
\* stream right after the key (no payload byte) and has returned.
C10_Witness ==
    /\ rd.phase = "done"
    /\ rd.start = KEY_SIZE + PAYLOAD_SIZE
    /\ Len(rd.stream) - rd.start = KEY_SIZE
    /\ rd.split

\* the complete records of the input, as a set
InputSet == {InputRecords(input)[i] : i \in 1..NumRecords}

\* C11 as stated: for every input whose length is no multiple of 100 bytes and
\* every capacity, run() returns the truncated-input error (UnexpectedEof),
\* never a count, and at every moment every record handed to a writer, and
\* after the return every frame of every run file, is a complete record of
\* the input.
C11_TruncatedInputFails ==
    ~Complete(input) =>
        /\ \A i \in 1..Len(st.out) : \A k \in 1..Len(st.out[i]) :
              st.out[i][k] \in InputSet
        /\ Done =>
              /\ st.result = Some(Err("UnexpectedEof"))
              /\ \A n \in DOMAIN st.fs :
                    /\ ReadRunFile(st.fs[n]).ok
                    /\ \A k \in 1..Len(ReadRunFile(st.fs[n]).val) :
                          ReadRunFile(st.fs[n]).val[k] \in InputSet

\* C11 for the capacities H >= 1 only.
C11_TruncatedFailsFromOne ==
    heap_cap >= 1 => C11_TruncatedInputFails

\* C12 as stated: when an open, read, write or truncate operation has failed
\* during run(), run() returns an error.
C12_FailurePropagates ==
    (Done /\ st.io.failed # {}) => ~st.result.val.ok

\* C12 for open and read only: when an open or a read has failed during
\* run(), run() returns an error.
C12_OtherFailuresPropagate ==
    (Done /\ st.io.failed \cap {"open", "read"} # {}) => ~st.result.val.ok

\* C13: when run() has returned after opening a run file, with Ok or with an
\* error from a read, a write, a flush or an open, every writer it opened has
\* been dropped, the one open at the return last, and flush was called on
\* each; and unless a write or a truncate failed, each writer's buffer is
\* empty and its file is exactly total_bytes_written bytes long.
C13_FinalizeOnEveryExit ==
    (Done /\ st.opens # <<>>) =>
        /\ Len(st.dropped) = Len(st.opens)
        /\ \A i \in 1..Len(st.opens) :
              /\ st.dropped[i].name = RunFileName(st.opens[i])
              /\ st.dropped[i].flushes >= 1
              /\ (st.io.failed \cap {"write", "truncate"} = {}) =>
                    /\ st.dropped[i].pos = 0
                    /\ Len(st.fs[st.dropped[i].name])
                          = st.dropped[i].total_bytes_written

\* C13 witness: run() has returned an error from a read that failed during a
\* refill of the second run, whose writer held an unwritten partial buffer.
C13_Witness ==
    /\ Done /\ ~st.result.val.ok
    /\ st.io.failed = {"read"}
    /\ Len(st.opens) = 2
    /\ st.dropped[2].total_bytes_written > 0
    /\ st.dropped[2].flushes = 1

\* the records resident in memory: the queued items and the popped item
Resident == Len(st.heap) + (IF st.item.some THEN 1 ELSE 0)

\* C14: in every state of run(), for every input and capacity H, the queue
\* holds at most H items, and the queued items together with the item popped
\* and not yet replaced by the refill are at most H.
C14_ResidentAtMostH ==
    /\ Len(st.heap) <= heap_cap
    /\ Resident <= heap_cap

\* C14 witness: between a pop and its refill, on an input longer than the
\* capacity H >= 2, after earlier refills: H - 1 items queued and one popped.
C14_Witness ==
    /\ st.pc = "refill"
    /\ heap_cap >= 2
    /\ NumRecords > 2 * heap_cap
    /\ st.seq > heap_cap + 1
    /\ st.item.some
    /\ Len(st.heap) = heap_cap - 1

\* the number of a key built by KeyNo
KeyNum(key) == 2 * key[1] + key[KEY_SIZE]

\* x comes before y in the lexicographic order on (generation, key, sequence)
LexBefore(x, y) ==
    \/ x.g < y.g
    \/ x.g = y.g /\ KeyNum(x.rec.key) < KeyNum(y.rec.key)
    \/ x.g = y.g /\ KeyNum(x.rec.key) = KeyNum(y.rec.key) /\ x.seq < y.seq

\* C15: for all items x, y (and z): cmp(x, y) is Less exactly when x comes
\* before y in the lexicographic order on (generation, key, sequence), each
\* ascending, and Greater exactly when y comes before x; cmp(y, x) is the
\* reverse of cmp(x, y); a lower generation is Less whatever the keys; cmp is
\* transitive; and cmp(x, y) is Equal exactly when Item equality holds, which
\* is when generation, sequence and key are equal.
C15_ItemOrder ==
    ord.phase = "compared" =>
        /\ (ord.xy = -1) <=> LexBefore(ord.x, ord.y)
        /\ (ord.xy = 1) <=> LexBefore(ord.y, ord.x)
        /\ ord.yx = 0 - ord.xy
        /\ ord.x.g < ord.y.g => ord.xy = -1
        /\ (ord.xy = 0) <=> ord.eq
        /\ ord.eq <=> (/\ ord.x.g = ord.y.g
                       /\ ord.x.seq = ord.y.seq
                       /\ ord.x.rec.key = ord.y.rec.key)
        /\ \A z \in OrdItems :
              /\ (ord.xy = -1 /\ ItemCmp(ord.y, z) = -1)
                    => ItemCmp(ord.x, z) = -1
              /\ (ord.xy = 0 /\ ItemCmp(ord.y, z) = 0)
                    => ItemCmp(ord.x, z) = 0

\* C15 witness: compared, x of the lower generation with the greater key, the
\* keys differing in their first byte, the payloads differing too.
C15_Witness ==
    /\ ord.phase = "compared"
    /\ ord.x.g < ord.y.g
    /\ ord.x.rec.key[1] > ord.y.rec.key[1]
    /\ ord.x.seq > ord.y.seq
    /\ ord.x.rec.payload # ord.y.rec.payload

\* C16: in every refill step that reads a record, a key was emitted just
\* before and the record's item (one, carrying the next sequence number) is
\* queued with generation current_gen + 1 exactly when its key is strictly
\* less than that key; a record with an equal or greater key is queued with
\* generation current_gen, which is the index of the run open at that
\* moment; and in every pop step the popped item's generation is the index of
\* the run whose writer takes its frame.
C16_RefillTag ==
    [][/\ (st.pc = "refill" /\ st'.seq = st.seq + 1) =>
             LET key == InputRecords(input)[st.seq + 1].key
                 mine == {i \in 1..Len(st'.heap) : st'.heap[i].seq = st.seq}
             IN  /\ st.last_out_key.some
                 /\ Cardinality(mine) = 1
                 /\ \A i \in mine :
                       /\ st'.heap[i].rec.key = key
                       /\ (st'.heap[i].g = st.current_gen + 1)
                             <=> (KeyCmp(key, st.last_out_key.val) < 0)
                       /\ KeyCmp(key, st.last_out_key.val) >= 0 =>
                             /\ st'.heap[i].g = st.current_gen
                             /\ st'.heap[i].g = st.run_idx
                             /\ st.writer.val.name = RunFileName(st.run_idx)
       /\ (st.pc = "loop" /\ st'.pc = "refill") =>
             /\ st'.item.val.g = st.run_idx
             /\ st.writer.val.name = RunFileName(st'.item.val.g)
             /\ st'.outseq[Len(st'.outseq)]
                   = Append(st.outseq[Len(st.outseq)], st'.item.val.seq)
      ]_vars

\* C16 witness: a refill has just queued a record whose key equals the key
\* emitted before it, in the current generation, while a record frozen by an
\* earlier refill waits in the next generation.
C16_Witness ==
    /\ st.pc = "loop"
    /\ st.last_out_key.some
    /\ \E i, j \in 1..Len(st.heap) :
          /\ st.heap[i].seq >= heap_cap
          /\ st.heap[i].g = st.current_gen + 1
          /\ st.heap[j].seq = st.seq - 1
          /\ st.heap[j].seq >= heap_cap
          /\ st.heap[j].g = st.current_gen
          /\ st.heap[j].rec.key = st.last_out_key.val

\* the state the defensive branch of the rotation is taken from
AtDefensiveBranch ==
    /\ st.pc = "loop"
    /\ st.heap # <<>>
    /\ HeapPeek(st.heap).g # st.current_gen
    /\ st.records_in_current_run = 0

\* C17, the states: for every input and H >= 1, in no state of run() is the
\* queue non-empty with its smallest item outside current_gen while no record
\* has been written to the open run, and run_idx = current_gen in every state.
C17_Consistent ==
    heap_cap >= 1 =>
        /\ ~AtDefensiveBranch
        /\ st.run_idx = st.current_gen

\* C17: the above in every state, and in every step run_idx and current_gen
\* either both stay or both grow by 1.
C17_DefensiveUnreachable ==
    /\ []C17_Consistent
    /\ [][heap_cap >= 1 =>
             \/ /\ st'.run_idx = st.run_idx
                /\ st'.current_gen = st.current_gen
             \/ /\ st'.run_idx = st.run_idx + 1
                /\ st'.current_gen = st.current_gen + 1]_vars

\* C17 witness: right after the second rotation: at the head of the loop, a
\* third run open and still empty, the queue not empty.
C17_Witness ==
    /\ st.pc = "loop"
    /\ heap_cap >= 1
    /\ st.run_idx = 2
    /\ st.records_in_current_run = 0
    /\ st.heap # <<>>

\* C18: for every input and every H >= 1, at every moment, of two records
\* with equal keys written to the same run the one written first has the
\* smaller sequence number, and sequence numbers follow the input order: the
\* item with sequence number n carries the n-th record of the input (from 0).
C18_StableDuplicates ==
    heap_cap >= 1 =>
        \A r \in 1..Len(st.out) :
            /\ Len(st.outseq[r]) = Len(st.out[r])
            /\ \A a \in 1..Len(st.out[r]) :
                  st.out[r][a] = InputRecords(input)[st.outseq[r][a] + 1]
            /\ \A a, b \in 1..Len(st.out[r]) :
                  (a < b /\ st.out[r][a].key = st.out[r][b].key) =>
                      st.outseq[r][a] < st.outseq[r][b]

\* C18 witness: run() has returned two runs or more; the first holds, next to
\* each other, two records of equal key and different payloads that were
\* queued together by the priming, and a record that a refill took in.
C18_Witness ==
    /\ ReturnedOk /\ heap_cap >= 2
    /\ Len(st.out) >= 2
    /\ Len(st.out[1]) > heap_cap
    /\ \E a \in 1..(Len(st.out[1]) - 1) :
          /\ st.out[1][a].key = st.out[1][a + 1].key
          /\ st.out[1][a].payload # st.out[1][a + 1].payload
          /\ st.outseq[1][a + 1] < heap_cap

\* C19: after every write_all that returned Ok on a DirectWriter (no flush
\* before it): 0 <= pos < ALIGNMENT, the filled part of the buffer is pos
\* bytes, every physical write so far was ALIGNMENT bytes and they lie back to
\* back in the file, total_bytes_written is the number of bytes handed in and
\* equals physical writes * ALIGNMENT + pos; so data that ends exactly at the
\* buffer's boundary has been written at once and pos is 0.
C19_WriterInvariant ==
    (dw.last = "write_all" /\ dw.ok) =>
        /\ dw.w.pos >= 0
        /\ dw.w.pos < ALIGNMENT
        /\ Len(dw.w.buffer) = dw.w.pos
        /\ dw.w.sizes \subseteq {ALIGNMENT}
        /\ dw.w.off = dw.w.phys * ALIGNMENT
        /\ Len(dw.fs[DwName]) = dw.w.phys * ALIGNMENT
        /\ dw.w.total_bytes_written = Len(dw.logical)
        /\ dw.w.total_bytes_written = dw.w.phys * ALIGNMENT + dw.w.pos
        /\ Len(dw.logical) % ALIGNMENT = 0 =>
              /\ dw.w.pos = 0
              /\ dw.w.phys = Len(dw.logical) \div ALIGNMENT
              /\ dw.fs[DwName] = dw.logical

\* C19 witness: a write_all of 1 byte after one of ALIGNMENT - 1 bytes has
\* returned: the buffer was filled exactly to the boundary by the second call.
C19_Witness ==
    /\ dw.last = "write_all" /\ dw.ok
    /\ dw.calls = 2
    /\ Len(dw.logical) = ALIGNMENT
    /\ dw.logical[ALIGNMENT] = 2
    /\ dw.w.phys = 1

\* the sequence numbers of the items written to run r, and of all written
WrittenSeqs(r) == {st.outseq[r][a] : a \in 1..Len(st.outseq[r])}

AllWrittenSeqs == UNION {WrittenSeqs(r) : r \in 1..Len(st.outseq)}

\* the number of records written to the run files so far
WrittenCount ==
    LET sum[r \in 0..Len(st.out)] ==
            IF r = 0 THEN 0 ELSE sum[r - 1] + Len(st.out[r])
    IN  sum[Len(st.out)]

QueuedSeqs == {st.heap[i].seq : i \in 1..Len(st.heap)}

\* C20: at the head of every main-loop iteration, seq is the number of
\* records read from the input so far and equals the records written to the
\* run files plus the items queued; the queued items have pairwise different
\* sequence numbers; and the items written and the items queued are, without
\* overlap and without repetition, the items numbered 0 .. seq - 1: each is
\* written once, on being popped, or is still queued.
C20_Conservation ==
    st.pc = "loop" =>
        /\ st.seq * (KEY_SIZE + PAYLOAD_SIZE) = st.pos
        /\ st.seq = WrittenCount + Len(st.heap)
        /\ Cardinality(QueuedSeqs) = Len(st.heap)
        /\ Cardinality(AllWrittenSeqs) = WrittenCount
        /\ AllWrittenSeqs \cap QueuedSeqs = {}
        /\ AllWrittenSeqs \cup QueuedSeqs = 0..(st.seq - 1)
        /\ st.records_in_current_run = Len(st.out[Len(st.out)])

\* C20 witness: the head of the loop in the second run, with records written
\* to the first, refills done, and two items of equal key and generation
\* queued.
C20_Witness ==
    /\ st.pc = "loop"
    /\ Len(st.out) = 2
    /\ Len(st.out[1]) >= 2
    /\ st.seq > heap_cap + 1
    /\ \E i, j \in 1..Len(st.heap) :
          /\ i # j
          /\ st.heap[i].g = st.heap[j].g
          /\ st.heap[i].rec.key = st.heap[j].rec.key

\* the generations of the queued items
QueuedGens == {st.heap[i].g : i \in 1..Len(st.heap)}

\* the state a rotation is performed from
AtRotation ==
    /\ st.pc = "loop"
    /\ st.heap # <<>>
    /\ HeapPeek(st.heap).g # st.current_gen

\* C21, the states: every queued item has generation current_gen or
\* current_gen + 1, and where a rotation is about to be performed every
\* queued item has generation current_gen + 1.
C21_Window ==
    /\ QueuedGens \subseteq {st.current_gen, st.current_gen + 1}
    /\ AtRotation => QueuedGens = {st.current_gen + 1}

\* C21: the above in every state of run(), for every input and capacity, and
\* every step that rotates leaves every queued item in the new current_gen,
\* with the queue itself untouched.
C21_GenerationWindow ==
    /\ []C21_Window
    /\ [][AtRotation =>
             /\ st'.heap = st.heap
             /\ st'.current_gen = st.current_gen + 1
             /\ \A i \in 1..Len(st'.heap) :
                   st'.heap[i].g = st'.current_gen]_vars

\* C21 witness: a second rotation is about to be performed with two or more
\* items queued.
C21_Witness ==
    /\ AtRotation
    /\ st.run_idx = 1
    /\ st.records_in_current_run >= 2
    /\ Len(st.heap) >= 2

\* C21, the other case: both generations are queued at once, after a rotation
C21_MixedQueue ==
    /\ st.pc = "loop"
    /\ QueuedGens = {st.current_gen, st.current_gen + 1}
    /\ st.current_gen >= 1

\* C22: for every input and H >= 1, after a successful run() every run but
\* the last holds at least H records, the last holds at least one, every run
\* file is at least one frame long, and the count is at most ceil(N / H) for
\* the N records of the input.
C22_RunsAtLeastH ==
    (ReturnedOk /\ heap_cap >= 1) =>
        /\ \A r \in 1..(Len(st.out) - 1) : Len(st.out[r]) >= heap_cap
        /\ \A r \in 1..Len(st.out) :
              /\ Len(st.out[r]) >= 1
              /\ Len(RunFile(r)) >= FRAME_SIZE
        /\ \A n \in DOMAIN st.fs : Len(st.fs[n]) >= FRAME_SIZE
        /\ Count <= (NumRecords + heap_cap - 1) \div heap_cap

\* C22 witness: run() has returned three runs or more under H >= 2, the runs
\* but the last with exactly H records each, the last with a single record,
\* so that the count is ceil(N / H) with N no multiple of H.
C22_Witness ==
    /\ ReturnedOk /\ heap_cap >= 2
    /\ Len(st.out) >= 3
    /\ \A r \in 1..(Len(st.out) - 1) : Len(st.out[r]) = heap_cap
    /\ Len(st.out[Len(st.out)]) = 1
    /\ Count = (NumRecords + heap_cap - 1) \div heap_cap

\* C23: for every input and H >= 1, at every moment, the first record
\* written to a run after the first has a key strictly less than the key of
\* the last record written to the run before it; and after a successful
\* run() the same holds of the records read back from the run files.
C23_RunsMaximal ==
    heap_cap >= 1 =>
        /\ \A r \in 2..Len(st.out) :
              st.out[r] # <<>> =>
                  KeyCmp(st.out[r][1].key,
                         st.out[r - 1][Len(st.out[r - 1])].key) < 0
        /\ ReturnedOk =>
              \A r \in 2..Len(st.opens) :
                  LET prev == ReadRunFile(RunFile(r - 1)).val
                      this == ReadRunFile(RunFile(r)).val
                  IN  KeyCmp(this[1].key, prev[Len(prev)].key) < 0

\* C23 witness: run() has returned two runs or more under H >= 2, the first
\* run longer than H, and two runs next to each other meet in keys that
\* differ only in their last byte.
C23_Witness ==
    /\ ReturnedOk /\ heap_cap >= 2
    /\ Len(st.out) >= 2
    /\ Len(st.out[1]) > heap_cap
    /\ \E r \in 2..Len(st.out) :
          st.out[r][1].key[1] = st.out[r - 1][Len(st.out[r - 1])].key[1]

\* a main-loop iteration that begins here pops
AtPop ==
    /\ st.pc = "loop"
    /\ st.heap # <<>>
    /\ HeapPeek(st.heap).g = st.current_gen

\* C24, the steps: with H >= 1, an iteration of the main loop that finds the
\* queue non-empty either pops exactly one item and writes it (then comes the
\* refill) or rotates, leaving the queue as it is and opening the next run;
\* and a rotation ends where the next iteration pops.
C24_PopOrRotate ==
    (heap_cap >= 1 /\ st.pc = "loop" /\ st.heap # <<>>) =>
        \/ /\ AtPop
           /\ st'.pc = "refill"
           /\ st'.heap = Tail(st.heap)
           /\ st'.item = Some(Head(st.heap))
           /\ st'.records_in_current_run = st.records_in_current_run + 1
           /\ st'.run_idx = st.run_idx
           /\ st'.opens = st.opens
        \/ /\ AtRotation
           /\ st'.heap = st.heap
           /\ st'.run_idx = st.run_idx + 1
           /\ st'.opens = Append(st.opens, st.run_idx + 1)
           /\ st'.records_in_current_run = 0
           /\ st'.pc = "loop"
           /\ st'.heap # <<>>
           /\ HeapPeek(st'.heap).g = st'.current_gen

\* a bound on the steps run() has left: 4 for each record not yet written,
\* the rest for the place in the current iteration or in the priming loop
C24_StepsLeft ==
    LET unwritten == 4 * (NumRecords - WrittenCount)
    IN  CASE st.pc = "prime"  -> unwritten + 4 + (heap_cap - Len(st.heap))
          [] st.pc = "primed" -> unwritten + 3
          [] st.pc = "loop"   -> unwritten + (IF AtRotation THEN 3 ELSE 2)
          [] st.pc = "refill" -> unwritten + 5
          [] st.pc = "done"   -> 0

\* C24: for every input and H >= 1, without I/O failure, run() returns:
\* until it has returned it is at a place where a step is possible (Prime;
\* ReturnEmpty or OpenFirst; Finish, Pop or Rotate; Refill), and every step
\* lowers a bound that is a natural number; its main-loop steps are as above; and when it
\* returns a count, the N records of the input have each been popped and
\* written, and count - 1 rotations were performed (none when the count
\* is 0).
C24_Terminates ==
    /\ [](heap_cap >= 1 =>
             /\ C24_StepsLeft \in Nat
             /\ ~Done => st.pc \in {"prime", "primed", "loop", "refill"})
    /\ [][heap_cap >= 1 => C24_StepsLeft' < C24_StepsLeft]_vars
    /\ [][C24_PopOrRotate]_vars
    /\ [](( ReturnedOk /\ heap_cap >= 1) =>
             /\ WrittenCount = NumRecords
             /\ st.seq = NumRecords
             /\ st.heap = <<>>
             /\ IF Count = 0 THEN st.opens = <<>> /\ NumRecords = 0
                ELSE Len(st.opens) - 1 = Count - 1 /\ st.run_idx = Count - 1)

\* C24 witness: run() has returned a count of 3 or more after more pops than
\* twice the capacity H >= 2.
C24_Witness ==
    /\ ReturnedOk /\ heap_cap >= 2
    /\ Count >= 3
    /\ WrittenCount > 2 * heap_cap
    /\ WrittenCount = NumRecords

\* run() is about to flush its writer: at a rotation, or after the loop
AtExplicitFlush ==
    /\ st.pc = "loop"
    /\ st.writer.some
    /\ \/ st.heap = <<>>
       \/ AtRotation /\ st.records_in_current_run > 0

\* C25: once the explicit flush of a writer has returned Ok, the flush that
\* Drop issues next writes no block and leaves the file as the first flush
\* left it, length and contents; and every write_all of run() is on a writer
\* that has not been flushed.
C25_FlushIdempotent ==
    /\ [][AtExplicitFlush =>
            LET f == Flush(st.writer.val, st.fs, st.io)
                d == st'.dropped[Len(st'.dropped)]
            IN  f.ok =>
                  /\ Len(st'.dropped) = Len(st.dropped) + 1
                  /\ d.name = f.w.name
                  /\ d.flushes = 2
                  /\ d.phys = f.w.phys
                  /\ d.off = f.w.off
                  /\ st'.fs[d.name] = f.fs[d.name]]_vars
    /\ [](AtPop => st.writer.some /\ st.writer.val.flushes = 0)
    /\ [](st.pc = "refill" => st.writer.some /\ st.writer.val.flushes = 0)

\* C25 witness: a second run is being written after the first writer, whose
\* last block was partly filled, was flushed at the rotation and then dropped.
C25_Witness ==
    /\ AtPop /\ st.run_idx = 1 /\ st.records_in_current_run >= 1
    /\ Len(st.dropped) = 1
    /\ st.dropped[1].flushes = 2
    /\ st.dropped[1].phys = 1
    /\ st.dropped[1].total_bytes_written = 2 * FRAME_SIZE
    /\ Len(st.fs[st.dropped[1].name]) = 2 * FRAME_SIZE

\* C25 where no ftruncate result is discarded: unless the environment fails
\* an ftruncate of the Linux build, Drop's flush after an Ok flush writes no
\* block and leaves the file unchanged.
C25_IdempotentOnCheckedFlush ==
    [][(AtExplicitFlush /\ ~(st.io.kind = "truncate" /\ st.io.linux)) =>
            LET f == Flush(st.writer.val, st.fs, st.io)
                d == st'.dropped[Len(st'.dropped)]
            IN  f.ok =>
                  /\ Len(st'.dropped) = Len(st.dropped) + 1
                  /\ d.flushes = 2
                  /\ d.phys = f.w.phys
                  /\ st'.fs[d.name] = f.fs[d.name]]_vars

\* C26: with capacity H = 0, whatever the input, run() never reads a byte of
\* it, never opens or writes a run file and meets no failure, and what it
\* returns is Ok(0): no record of the input is in any output.
C26_ZeroCapacity ==
    heap_cap = 0 =>
        /\ st.pos = 0
        /\ st.seq = 0
        /\ st.heap = <<>>
        /\ st.opens = <<>>
        /\ DOMAIN st.fs = {}
        /\ st.out = <<>>
        /\ ~st.writer.some
        /\ st.dropped = <<>>
        /\ st.io.failed = {}
        /\ st.pc \in {"prime", "primed", "done"}
        /\ Done => st.result = Some(Ok(0))

\* C26 witness: run() has returned with H = 0 on an input of two or more
\* complete records followed by a cut one.
C26_Witness ==
    /\ Done /\ heap_cap = 0
    /\ NumRecords >= 2
    /\ Len(input) % (KEY_SIZE + PAYLOAD_SIZE) # 0
    /\ st.result = Some(Ok(0))

====
